---- MODULE Spec2Model ----
(***************************************************************************)
(* Model of count_go_code_lines.py: the per-line scanner of                *)
(* analyze_go_file and the per-file summation of analyze_go_folder.        *)
(* A line is a sequence of one-character strings.  "x" stands for any      *)
(* character that is neither whitespace nor part of a comment token, and   *)
(* "\n" is the line terminator the file iterator leaves on a line.         *)
(***************************************************************************)
EXTENDS Integers, Sequences, FiniteSets, TLC

\* ---------------------------------------------------------------- bounds
MaxLen == 3        \* longest text of a line drawn for the scanner
MaxLines == 2      \* most lines read from one streamed file
MaxFiles == 2      \* most .go files in a walked folder

\* ------------------------------------------------------- tokens and text
LineComment == <<"/", "/">>
BlockOpen == <<"/", "*">>
BlockClose == <<"*", "/">>

Chars == {" ", "/", "*", "x"}
EOL == "\n"

Text == UNION {[1..k -> Chars] : k \in 0..MaxLen}

\* what `for line in f` can yield: a text with its terminator, or a
\* non-empty unterminated text (the last line of a file)
Lines == {t \o <<EOL>> : t \in Text} \cup (Text \ {<<>>})

\* ------------------------------------------------- Python str operations
IsSpace(c) == c \in {" ", EOL}

RECURSIVE lstrip(_)
lstrip(s) == IF s # <<>> /\ IsSpace(Head(s)) THEN lstrip(Tail(s)) ELSE s

RECURSIVE rstrip(_)
rstrip(s) ==
  IF s # <<>> /\ IsSpace(s[Len(s)]) THEN rstrip(SubSeq(s, 1, Len(s) - 1)) ELSE s

strip(s) == rstrip(lstrip(s))

startswith(s, p) == Len(s) >= Len(p) /\ SubSeq(s, 1, Len(p)) = p

endswith(s, p) ==
  Len(s) >= Len(p) /\ SubSeq(s, Len(s) - Len(p) + 1, Len(s)) = p

\* positions at which sub occurs in s
Occurrences(s, sub) ==
  {i \in 1..(Len(s) - Len(sub) + 1) : SubSeq(s, i, i + Len(sub) - 1) = sub}

\* sub in s
Contains(s, sub) == Occurrences(s, sub) # {}

\* s.find(sub), 1-based; 0 when absent
Find(s, sub) ==
  IF Contains(s, sub)
  THEN CHOOSE i \in Occurrences(s, sub) : \A j \in Occurrences(s, sub) : i <= j
  ELSE 0

\* s.split(sep, 1)[1], for s containing sep
SplitAfter(s, sep) == SubSeq(s, Find(s, sep) + Len(sep), Len(s))

\* ------------------------------------------------------ one loop iteration
\* The body of `for line in f` after total += 1: the increments of
\* comment, empty and code, and the next value of in_block_comment.
Tally(c, e, k, b) == [comment |-> c, empty |-> e, code |-> k, in_block_comment |-> b]

InBlock_CloseAtEnd(stripped) ==
  IF endswith(stripped, BlockClose) THEN Tally(1, 0, 0, FALSE)
  ELSE Tally(1, 0, 0, TRUE)

\* the branch `if in_block_comment:` on a non-empty stripped line
InBlock(stripped) ==
  IF Contains(stripped, BlockClose) THEN
    IF endswith(stripped, BlockClose) THEN Tally(1, 0, 0, FALSE)
    ELSE LET remaining == strip(SplitAfter(stripped, BlockClose)) IN
         IF remaining # <<>> /\ ~startswith(remaining, LineComment)
         THEN Tally(1, 0, 1, FALSE)
         ELSE Tally(1, 0, 0, FALSE)
  ELSE Tally(1, 0, 0, TRUE)

OutOfBlock_CodeBeforeOpen(stripped) ==
  IF startswith(stripped, LineComment) THEN Tally(1, 0, 0, FALSE)
  ELSE IF startswith(stripped, BlockOpen) THEN
    IF Contains(stripped, BlockClose) THEN Tally(1, 0, 0, FALSE)
    ELSE Tally(1, 0, 0, TRUE)
  ELSE Tally(0, 0, 1, FALSE)

\* the rest of the body, reached with in_block_comment false and a
\* non-empty stripped line
OutOfBlock(stripped) ==
  IF startswith(stripped, LineComment) THEN Tally(1, 0, 0, FALSE)
  ELSE IF Contains(stripped, BlockOpen) THEN
    IF Contains(stripped, BlockClose) THEN Tally(1, 0, 0, FALSE)
    ELSE Tally(1, 0, 0, TRUE)
  ELSE Tally(0, 0, 1, FALSE)

ClassifyLine_BlockFirst(in_block, l) ==
  LET stripped == strip(l) IN
  IF in_block THEN
    IF stripped = <<>> THEN Tally(1, 0, 0, TRUE) ELSE InBlock(stripped)
  ELSE IF stripped = <<>> THEN Tally(0, 1, 0, in_block)
  ELSE OutOfBlock(stripped)

ClassifyLine_BlankResets(in_block, l) ==
  LET stripped == strip(l) IN
  IF stripped = <<>> THEN Tally(0, 1, 0, FALSE)
  ELSE IF in_block THEN InBlock(stripped)
  ELSE OutOfBlock(stripped)

ClassifyLine(in_block, l) ==
  LET stripped == strip(l) IN
  IF stripped = <<>> THEN Tally(0, 1, 0, in_block)
  ELSE IF in_block THEN InBlock(stripped)
  ELSE OutOfBlock(stripped)

\* ------------------------------------------------------------------ state
VARIABLES
  pc,                \* control position
  total, comment, empty, code, in_block_comment,   \* locals of analyze_go_file
  line,              \* the line the loop body last received
  folder,            \* the .go files in the order os.walk yields them
  visited,           \* how many of them analyze_go_folder has been through
  f,                 \* lines the open file has still to yield
  total_lines, comment_lines, empty_lines, code_lines  \* locals of analyze_go_folder

fileVars == <<total, comment, empty, code, in_block_comment, line>>
folderVars == <<folder, visited, f, total_lines, comment_lines, empty_lines, code_lines>>
vars == <<pc, fileVars, folderVars>>

\* analyze_go_file, before the loop
EnterFile ==
  /\ total' = 0
  /\ comment' = 0
  /\ empty' = 0
  /\ code' = 0
  /\ in_block_comment' = FALSE

\* analyze_go_file, one iteration of the loop on line l
LoopBody(l) ==
  LET r == ClassifyLine(in_block_comment, l) IN
  /\ line' = l
  /\ total' = total + 1
  /\ comment' = comment + r.comment
  /\ empty' = empty + r.empty
  /\ code' = code + r.code
  /\ in_block_comment' = r.in_block_comment

\* ------------------------------------- analyze_go_file on a streamed file
Init ==
  /\ pc = "call"
  /\ total = 0 /\ comment = 0 /\ empty = 0 /\ code = 0
  /\ in_block_comment = FALSE
  /\ line = <<>>
  /\ folder = <<>> /\ visited = 0 /\ f = <<>>
  /\ total_lines = 0 /\ comment_lines = 0 /\ empty_lines = 0 /\ code_lines = 0

Open ==
  /\ pc \in {"call", "returned"}
  /\ EnterFile
  /\ pc' = "loop"
  /\ UNCHANGED <<line, folderVars>>

ReadLine ==
  /\ pc = "loop"
  /\ total < MaxLines
  /\ \E l \in Lines : LoopBody(l)
  /\ UNCHANGED <<pc, folderVars>>

Return ==
  /\ pc = "loop"
  /\ pc' = "returned"
  /\ UNCHANGED <<fileVars, folderVars>>

Next == Open \/ ReadLine \/ Return

Spec == Init /\ [][Next]_vars

\* ------------------------------------------- analyze_go_folder on a folder
\* "/* a", "b */ code", "real code", "// hello", "   ", "/* one line */"
OpenLine == <<"/", "*", " ", "x", EOL>>
CloseCodeLine == <<"x", " ", "*", "/", " ", "x", EOL>>
CodeLine == <<"x", " ", "x", EOL>>
LineCommentLine == <<"/", "/", " ", "x", EOL>>
BlankLine == <<" ", " ", " ", EOL>>
InlineLine == <<"/", "*", " ", "x", " ", "*", "/", EOL>>

ExampleFile == <<OpenLine, CloseCodeLine, CodeLine>>
UnterminatedFile == <<LineCommentLine, OpenLine, BlankLine>>
ContinuationFile == <<CodeLine, BlankLine, SubSeq(CloseCodeLine, 1, 4)>>
InlineFile == <<InlineLine, CodeLine>>
EmptyFile == <<>>

SampleFiles ==
  {ExampleFile, UnterminatedFile, ContinuationFile, InlineFile, EmptyFile}

Folders == UNION {[1..n -> SampleFiles] : n \in 0..MaxFiles}

InitFolder ==
  /\ pc = "walk"
  /\ folder \in Folders
  /\ visited = 0
  /\ f = <<>>
  /\ total = 0 /\ comment = 0 /\ empty = 0 /\ code = 0
  /\ in_block_comment = FALSE
  /\ line = <<>>
  /\ total_lines = 0 /\ comment_lines = 0 /\ empty_lines = 0 /\ code_lines = 0

VisitFile_KeepFlag ==
  /\ pc = "walk"
  /\ visited < Len(folder)
  /\ total' = 0 /\ comment' = 0 /\ empty' = 0 /\ code' = 0
  /\ f' = folder[visited + 1]
  /\ pc' = "scan"
  /\ UNCHANGED <<in_block_comment, line, folder, visited,
                 total_lines, comment_lines, empty_lines, code_lines>>

\* the walk reaches the next .go file and calls analyze_go_file on it
VisitFile ==
  /\ pc = "walk"
  /\ visited < Len(folder)
  /\ EnterFile
  /\ f' = folder[visited + 1]
  /\ pc' = "scan"
  /\ UNCHANGED <<line, folder, visited,
                 total_lines, comment_lines, empty_lines, code_lines>>

\* the open file yields its next line
NextLine ==
  /\ pc = "scan"
  /\ f # <<>>
  /\ LoopBody(Head(f))
  /\ f' = Tail(f)
  /\ UNCHANGED <<pc, folder, visited,
                 total_lines, comment_lines, empty_lines, code_lines>>

FileDone_Overwrite ==
  /\ pc = "scan"
  /\ f = <<>>
  /\ total_lines' = total
  /\ comment_lines' = comment
  /\ empty_lines' = empty
  /\ code_lines' = code
  /\ visited' = visited + 1
  /\ pc' = "walk"
  /\ UNCHANGED <<fileVars, folder, f>>

\* the file is exhausted: analyze_go_file returns and the folder adds up
FileDone ==
  /\ pc = "scan"
  /\ f = <<>>
  /\ total_lines' = total_lines + total
  /\ comment_lines' = comment_lines + comment
  /\ empty_lines' = empty_lines + empty
  /\ code_lines' = code_lines + code
  /\ visited' = visited + 1
  /\ pc' = "walk"
  /\ UNCHANGED <<fileVars, folder, f>>

\* the walk is exhausted: analyze_go_folder returns
WalkDone ==
  /\ pc = "walk"
  /\ visited = Len(folder)
  /\ pc' = "done"
  /\ UNCHANGED <<fileVars, folderVars>>

NextFolder == VisitFile \/ NextLine \/ FileDone \/ WalkDone

SpecFolder == InitFolder /\ [][NextFolder]_vars

\* ---------------------------------------------- the two functions as folds
RECURSIVE ScanLines(_, _)
ScanLines(st, lines) ==
  IF lines = <<>> THEN st
  ELSE LET r == ClassifyLine(st.in_block_comment, Head(lines)) IN
       ScanLines([total |-> st.total + 1,
                  comment |-> st.comment + r.comment,
                  empty |-> st.empty + r.empty,
                  code |-> st.code + r.code,
                  in_block_comment |-> r.in_block_comment], Tail(lines))

ScanState(b) ==
  [total |-> 0, comment |-> 0, empty |-> 0, code |-> 0, in_block_comment |-> b]

Counts(st) == <<st.total, st.comment, st.empty, st.code>>

analyze_go_file(file) == Counts(ScanLines(ScanState(FALSE), file))

RECURSIVE analyze_go_folder(_)
analyze_go_folder(files) ==
  IF files = <<>> THEN <<0, 0, 0, 0>>
  ELSE LET t == analyze_go_file(Head(files))
           r == analyze_go_folder(Tail(files))
       IN <<t[1] + r[1], t[2] + r[2], t[3] + r[3], t[4] + r[4]>>

\* ------------------------------------------------------------ properties
\* a step that ran the loop body on line'
LineRead == total' = total + 1

\* the file analyze_go_file is scanning in the folder walk
CurrentFile == folder[visited + 1]

\* analyze_go_file has consumed the whole file and is about to return
AtReturn == pc = "scan" /\ f = <<>>

\* '*/' followed by non-blank text that does not start with '//'
CodeAfterClose(s) ==
  /\ Contains(s, BlockClose)
  /\ LET rest == strip(SplitAfter(s, BlockClose)) IN
       rest # <<>> /\ ~startswith(rest, LineComment)

\* some '*/' lies wholly after the first '/*'
CloseAfterOpen(s) ==
  \E i \in Occurrences(s, BlockClose) : i >= Find(s, BlockOpen) + Len(BlockOpen)

PermutationsOf(files) ==
  {[i \in 1..Len(files) |-> files[p[i]]] : p \in Permutations(1..Len(files))}

\* C1: the counters of a file scan satisfy total = comment + empty + code,
\* and so do the four sums of the folder.
C1_TotalIsSum ==
  /\ total = comment + empty + code
  /\ total_lines = comment_lines + empty_lines + code_lines

\* C2: every line read increments exactly one of comment, empty, code, by
\* one.
C2_ExactlyOneClass ==
  [][LineRead =>
       /\ comment' - comment \in {0, 1}
       /\ empty' - empty \in {0, 1}
       /\ code' - code \in {0, 1}
       /\ (comment' - comment) + (empty' - empty) + (code' - code) = 1]_vars

\* C3: a line read inside a block comment that closes it and has code after
\* the close token is counted as a comment line only; the code counter does
\* not move.
C3_NoDoubleCount ==
  [][LineRead /\ in_block_comment /\ CodeAfterClose(strip(line')) =>
       comment' = comment + 1 /\ code' = code /\ empty' = empty]_vars

\* C4 as stated: a blank line read inside a block comment is counted as a
\* comment line, not as an empty line.
C4_BlankInBlockIsComment ==
  [][LineRead /\ in_block_comment /\ strip(line') = <<>> =>
       comment' = comment + 1 /\ empty' = empty]_vars

\* C4 amended: a blank line read inside a block comment is counted as an
\* empty line, not as a comment line, and the scan stays inside the comment.
C4_BlankInBlockIsEmpty ==
  [][LineRead /\ in_block_comment /\ strip(line') = <<>> =>
       empty' = empty + 1 /\ comment' = comment /\ in_block_comment']_vars

C4_Witness ==
  pc = "loop" /\ total = 2 /\ empty = 1 /\ comment = 1
  /\ strip(line) = <<>> /\ in_block_comment

\* C5: every file of the folder is scanned from in_block_comment = FALSE:
\* when analyze_go_file returns, its counters are those of the file scanned
\* alone, whatever the files before it were.
C5_FileLocalFlag ==
  /\ (pc = "scan" /\ total = 0 => ~in_block_comment)
  /\ (AtReturn => <<total, comment, empty, code>> = analyze_go_file(CurrentFile))

C5_Witness ==
  /\ AtReturn
  /\ visited >= 1
  /\ ScanLines(ScanState(FALSE), folder[visited]).in_block_comment
  /\ Counts(ScanLines(ScanState(TRUE), CurrentFile)) # analyze_go_file(CurrentFile)

\* C6: the four sums analyze_go_folder returns are the sums of the files'
\* counts taken in any order.
C6_OrderIndependent ==
  pc = "done" =>
    \A files \in PermutationsOf(folder) :
      <<total_lines, comment_lines, empty_lines, code_lines>> = analyze_go_folder(files)

C6_Witness ==
  /\ pc = "done"
  /\ Len(folder) >= 2
  /\ folder[1] # folder[2]
  /\ analyze_go_file(folder[1]) # analyze_go_file(folder[2])
  /\ total_lines > 0

\* C7: outside a block comment, a line that does not start with '//' and
\* contains '/*' is a comment line, and leaves in_block_comment false exactly
\* when a '*/' comes after the '/*'.
C7_CloseAfterOpen ==
  [][LineRead /\ ~in_block_comment
       /\ ~startswith(strip(line'), LineComment)
       /\ Contains(strip(line'), BlockOpen) =>
       /\ comment' = comment + 1
       /\ (~in_block_comment' <=> CloseAfterOpen(strip(line')))]_vars

\* C8: inside a block comment, a non-blank line is a comment line and
\* leaves the comment exactly when it contains '*/'; any other line leaves
\* in_block_comment true.
C8_CloseEndsBlock ==
  [][LineRead /\ in_block_comment =>
       IF strip(line') # <<>>
       THEN /\ comment' = comment + 1
            /\ (~in_block_comment' <=> Contains(strip(line'), BlockClose))
       ELSE in_block_comment']_vars

C8_Witness ==
  pc = "loop" /\ total = 2 /\ comment = 2
  /\ Contains(strip(line), BlockClose) /\ ~Contains(strip(line), BlockOpen)
  /\ ~startswith(strip(line), LineComment)
  /\ ~in_block_comment

\* C9: a blank line leaves in_block_comment as it was and moves no counter
\* but total and empty.
C9_BlankFrame ==
  [][LineRead /\ strip(line') = <<>> =>
       /\ in_block_comment' = in_block_comment
       /\ comment' = comment
       /\ code' = code]_vars

C9_Witness ==
  pc = "loop" /\ total = 2 /\ empty = 2 /\ strip(line) = <<>> /\ line # <<>>
  /\ ~in_block_comment

\* C10: outside a block comment the code counter moves exactly for a
\* non-blank line that neither starts with '//' nor contains '/*'; a line
\* with code before '/*' is a comment line.
C10_CodeOutsideBlock ==
  [][LineRead /\ ~in_block_comment =>
       LET s == strip(line') IN
       /\ code' - code \in {0, 1}
       /\ (code' = code + 1 <=>
             s # <<>> /\ ~startswith(s, LineComment) /\ ~Contains(s, BlockOpen))
       /\ (~startswith(s, LineComment) /\ Find(s, BlockOpen) > 1 =>
             comment' = comment + 1 /\ code' = code)]_vars

C10_Witness ==
  pc = "loop" /\ total = 1 /\ comment = 1 /\ code = 0
  /\ ~startswith(strip(line), LineComment)
  /\ Find(strip(line), BlockOpen) > 1

====
